---- MODULE Spec2Model ----
(***************************************************************************)
(* Order placement, cancellation and status update (src/routes/orders.js), *)
(* the cart routes (src/routes/cart.js) and the product update             *)
(* (src/unnamed/part_004) of the storefront backend as a state machine.    *)
(* Every request is a                                                      *)
(* process whose steps are the handler's storage calls: each awaited       *)
(* executeQuery / executeTransaction is one step, and between two steps of *)
(* one request any step of another request may run.  A storage call may    *)
(* also throw, which takes the handler to its catch block (response 500).  *)
(*                                                                         *)
(* Money is counted in thousandths of the currency unit ("mills"); a       *)
(* DECIMAL(10,2) column keeps a multiple of 10 mills.                      *)
(***************************************************************************)
EXTENDS Integers, Sequences, FiniteSets

(* ---------------------------------------------------------------- bounds *)
NReq == 3            \* requests issued in one behaviour
MaxQty == 2          \* largest quantity a client submits on one line
MaxLines == 2        \* longest item list a client submits
InitStock == 3       \* stock of every product before the first request
MaxInFlight == 2     \* requests the server handles at the same time
MaxFaults == 1       \* storage calls that throw in one behaviour

Reqs == 1..NReq
\* ids of the rows of products and of users
Products == {1, 2}
Users == {1, 2}
\* the user who places the orders; the other user is a stranger to them
Buyers == {1}
\* the users whose role is 'admin'
Admins == {2}
Quantities == 1..MaxQty
\* unit prices a client submits: the catalogue price 0.50, and 1.004
CataloguePrices == {500}
Prices == {500, 1004}

Statuses == {"pending", "processing", "shipped", "delivered", "cancelled"}
\* what a client may send as the new status: the five states and a bad value
StatusInputs == Statuses \cup {"refunded"}

\* the item lists a client submits, with unit prices among `prices`: up to
\* `maxLines` lines, one line per product (as a cart holds them), by product id
ItemLists(prices, maxLines) ==
    LET LineInputs == [product : Products, quantity : Quantities, price : prices]
        all == UNION {[1..n -> LineInputs] : n \in 0..maxLines}
    IN  {l \in all : \A j, k \in 1..Len(l) : j < k => l[j].product < l[k].product}

VARIABLES
    stock,        \* products.stock, by product id
    orders,       \* table orders: sequence indexed by the AUTO_INCREMENT id
    order_items,  \* table order_items: sequence indexed by the AUTO_INCREMENT id
    req,          \* the requests: handler position and locals
    restored,     \* history: per order_items row, times its quantity was added back
    emails,       \* history: the requests that attempted a confirmation mail
    product_status,  \* products.status, by product id
    cart_sessions,   \* table cart_sessions: sequence indexed by the generated session id
    cart_items,      \* table cart_items: sequence indexed by the AUTO_INCREMENT id
    product_name,    \* products.name, by product id
    smtp_up          \* whether the mail transport accepts a message

\* the catalogue names and status, the cart tables and the mail transport,
\* which the order routes leave alone
cartVars == <<product_status, cart_sessions, cart_items, product_name, smtp_up>>

vars == <<stock, orders, order_items, req, restored, emails,
          product_status, cart_sessions, cart_items, product_name, smtp_up>>

(* ------------------------------------------------------- pure functions *)

\* a value stored in a DECIMAL(10,2) column: rounded to the nearest cent
ToDecimal2(x) == ((x + 5) \div 10) * 10

RECURSIVE SumTotals(_, _)
\* the subtotal accumulated by the item loop over the first n submitted lines
SumTotals(items, n) ==
    IF n = 0 THEN 0
    ELSE SumTotals(items, n - 1) + items[n].price * items[n].quantity

\* const orderItems = [] ... orderItems.push({...})
BuildOrderItems(items) ==
    [k \in 1..Len(items) |->
        [product_id    |-> items[k].product,
         product_name  |-> items[k].name,
         product_price |-> items[k].price,
         quantity      |-> items[k].quantity,
         total_price   |-> items[k].price * items[k].quantity]]

\* let shippingCost = 0 (the delivery-method tiers are commented out)
ShippingCost(deliveryMethod) == 0

\* const taxAmount = 0
TaxAmount == 0

\* a slip: the express tier (9.99) is added to the total although shippingCost is 0
TotalAmount_Tier(subtotal, shippingCost, taxAmount) == subtotal + 9990 + taxAmount

\* const totalAmount = subtotal + shippingCost + taxAmount
TotalAmount(subtotal, shippingCost, taxAmount) == subtotal + shippingCost + taxAmount

\* a slip: the check of the item list is missing from the validator chain
CreateValid_NoItems(shippingOk, items) == shippingOk

\* the express-validator chain of POST /orders
CreateValid(shippingOk, items) == shippingOk /\ Len(items) >= 1

\* a slip: a failed delivery is thrown to the caller instead of returned
SendOrderConfirmationEmail_Rethrow(up) == [returned |-> up, thrown |-> ~up]

\* sendOrderConfirmationEmail: try { await transporter.sendMail(...); return
\* true } catch (error) { return false }
SendOrderConfirmationEmail(up) == [returned |-> up, thrown |-> FALSE]

\* a slip: any status string is accepted
StatusValid_Any(s) == TRUE

\* body('status').isIn([...])
StatusValid(s) == s \in Statuses

\* a slip: the guard against delivered orders is missing
CancelRefused_NoDelivered(status) == status = "cancelled"

\* the two status guards of POST /orders/:id/cancel
CancelRefused(status) == status = "cancelled" \/ status = "delivered"

(* ------------------------------------------------------------- requests *)

Idle ==
    [kind |-> "none", pc |-> "idle", user |-> 0, items |-> <<>>, orderId |-> 0,
     i |-> 0, status |-> "", resp |-> 0, lines |-> <<>>,
     subtotal |-> 0, total |-> 0, conc |-> {}, over |-> FALSE,
     productId |-> 0, quantity |-> 0, itemId |-> 0, sessionId |-> 0,
     session |-> 0, stockRead |-> 0, existingId |-> 0, newQuantity |-> 0,
     guestItems |-> <<>>, stockIn |-> <<>>, statusIn |-> <<>>, cart0 |-> <<>>,
     orderNumber |-> 0, shippingOk |-> FALSE, nItems |-> 0, delivered |-> FALSE,
     nameIn |-> <<>>, body |-> <<>>]

InFlight(r) == req[r].pc \notin {"idle", "done"}

Running == {r \in Reqs : InFlight(r)}

\* requests are issued in slot order; a slot is used once
CanBegin(r) ==
    /\ req[r].pc = "idle"
    /\ IF r = 1 THEN TRUE ELSE req[r - 1].pc # "idle"
    /\ Cardinality(Running) < MaxInFlight

\* a storage call may still throw
CanFail == Cardinality({r \in Reqs : req[r].resp = 500}) < MaxFaults

\* the handler returns with response code c: its locals go out of scope
Finish(rec, c) ==
    [rec EXCEPT !.pc = "done", !.resp = c, !.items = <<>>, !.lines = <<>>,
                !.subtotal = 0, !.total = 0, !.stockRead = 0, !.existingId = 0,
                !.newQuantity = 0, !.guestItems = <<>>]

Init ==
    /\ stock = [p \in Products |-> InitStock]
    /\ orders = <<>>
    /\ order_items = <<>>
    /\ req = [r \in Reqs |-> Idle]
    /\ restored = <<>>
    /\ emails = {}
    /\ product_status = [p \in Products |-> "active"]
    /\ cart_sessions = <<>>
    /\ cart_items = <<>>
    /\ product_name = [p \in Products |-> "oil"]
    /\ smtp_up = TRUE

(* ------------------------------------------------ POST /orders (create) *)

\* the lines as the client submits them: each with the name the catalogue shows
Named(items) ==
    [k \in 1..Len(items) |->
        [product  |-> items[k].product,
         name     |-> product_name[items[k].product],
         quantity |-> items[k].quantity,
         price    |-> items[k].price]]

\* the handler up to its first storage call: validation, item loop, totals,
\* generateOrderNumber (whose result is orderNumber)
CreateBegin(r, user, shippingOk, items, orderNumber) ==
    /\ CanBegin(r)
    /\ IF ~CreateValid(shippingOk, items)
       THEN req' = [req EXCEPT ![r] =
                [Idle EXCEPT !.kind = "create", !.pc = "done", !.user = user,
                             !.shippingOk = shippingOk, !.nItems = Len(items),
                             !.resp = 400, !.conc = Running]]
       ELSE req' = [req EXCEPT ![r] =
                [Idle EXCEPT !.kind = "create", !.pc = "insert_order",
                             !.user = user,
                             !.shippingOk = shippingOk, !.nItems = Len(items),
                             !.orderNumber = orderNumber,
                             !.items = BuildOrderItems(Named(items)),
                             !.subtotal = SumTotals(items, Len(items)),
                             !.total = TotalAmount(SumTotals(items, Len(items)),
                                                   ShippingCost("standard"), TaxAmount),
                             !.conc = Running,
                             !.over = \E k \in 1..Len(items) :
                                         items[k].quantity > stock[items[k].product]]]
    /\ UNCHANGED <<stock, orders, order_items, restored, emails>>
    /\ UNCHANGED cartVars

\* order_number VARCHAR(50) UNIQUE NOT NULL: the number of an existing row
OrderNumberTaken(rows, orderNumber) ==
    \E k \in DOMAIN rows : rows[k].order_number = orderNumber

\* executeTransaction([orderInsertQuery]): the header row, status 'pending';
\* the insert of a taken order number throws: catch, res.status(500)
CreateInsertOrder(r) ==
    /\ req[r].kind = "create" /\ req[r].pc = "insert_order"
    /\ IF OrderNumberTaken(orders, req[r].orderNumber)
       THEN /\ req' = [req EXCEPT ![r] = Finish(req[r], 500)]
            /\ UNCHANGED orders
       ELSE /\ orders' = Append(orders,
                    [order_number  |-> req[r].orderNumber,
                     user_id       |-> req[r].user,
                     status        |-> "pending",
                     subtotal      |-> ToDecimal2(req[r].subtotal),
                     shipping_cost |-> ToDecimal2(ShippingCost("standard")),
                     tax_amount    |-> ToDecimal2(TaxAmount),
                     total_amount  |-> ToDecimal2(req[r].total)])
            /\ req' = [req EXCEPT ![r].orderId = Len(orders) + 1,
                                  ![r].i = 1,
                                  ![r].pc = "insert_item"]
    /\ UNCHANGED <<stock, order_items, restored, emails>>
    /\ UNCHANGED cartVars

\* INSERT INTO order_items (...) for line i
CreateInsertItem(r) ==
    /\ req[r].kind = "create" /\ req[r].pc = "insert_item"
    /\ LET item == req[r].items[req[r].i] IN
       order_items' = Append(order_items,
            [order_id      |-> req[r].orderId,
             product_id    |-> item.product_id,
             product_name  |-> item.product_name,
             product_price |-> ToDecimal2(item.product_price),
             quantity      |-> item.quantity,
             total_price   |-> ToDecimal2(item.total_price)])
    /\ restored' = Append(restored, 0)
    /\ req' = [req EXCEPT ![r].pc = "update_stock"]
    /\ UNCHANGED <<stock, orders, emails>>
    /\ UNCHANGED cartVars

\* UPDATE products SET stock = stock - ? WHERE id = ?  for line i
DecrementStock(s, product_id, quantity) ==
    [s EXCEPT ![product_id] = s[product_id] - quantity]

CreateUpdateStock(r) ==
    /\ req[r].kind = "create" /\ req[r].pc = "update_stock"
    /\ LET item == req[r].items[req[r].i] IN
       stock' = DecrementStock(stock, item.product_id, item.quantity)
    /\ req' = IF req[r].i < Len(req[r].items)
              THEN [req EXCEPT ![r].i = req[r].i + 1, ![r].pc = "insert_item"]
              ELSE [req EXCEPT ![r].i = req[r].i + 1, ![r].pc = "email"]
    /\ UNCHANGED <<orders, order_items, restored, emails>>
    /\ UNCHANGED cartVars

\* await sendOrderConfirmationEmail(...), whose result the handler ignores;
\* then res.status(201); an exception would reach the catch: res.status(500)
CreateEmail(r) ==
    /\ req[r].kind = "create" /\ req[r].pc = "email"
    /\ emails' = emails \cup {r}
    /\ LET sent == SendOrderConfirmationEmail(smtp_up) IN
       req' = IF sent.thrown
              THEN [req EXCEPT ![r] = Finish(req[r], 500)]
              ELSE [req EXCEPT ![r] =
                       Finish([req[r] EXCEPT !.delivered = sent.returned], 201)]
    /\ UNCHANGED <<stock, orders, order_items, restored>>
    /\ UNCHANGED cartVars

\* a slip: the catch block sends the confirmation mail as well
CreateFail_Notify(r) ==
    /\ CanFail
    /\ req[r].kind = "create"
    /\ req[r].pc \in {"insert_order", "insert_item", "update_stock"}
    /\ emails' = emails \cup {r}
    /\ req' = [req EXCEPT ![r] = Finish(req[r], 500)]
    /\ UNCHANGED <<stock, orders, order_items, restored>>
    /\ UNCHANGED cartVars

\* a storage call of the create handler throws: catch, res.status(500)
CreateFail(r) ==
    /\ CanFail
    /\ req[r].kind = "create"
    /\ req[r].pc \in {"insert_order", "insert_item", "update_stock"}
    /\ req' = [req EXCEPT ![r] = Finish(req[r], 500)]
    /\ UNCHANGED <<stock, orders, order_items, restored, emails>>
    /\ UNCHANGED cartVars

(* ------------------------------------------- POST /orders/:id/cancel *)

\* the order ids a client names: those of the existing orders and one more
OrderIds == 1..(Len(orders) + 1)

\* the ids of the order_items rows of one order, in id order
LinesOf(orderId) ==
    SelectSeq([k \in 1..Len(order_items) |-> k],
              LAMBDA k : order_items[k].order_id = orderId)

CancelBegin(r, user, orderId) ==
    /\ CanBegin(r)
    /\ req' = [req EXCEPT ![r] =
            [Idle EXCEPT !.kind = "cancel", !.pc = "select", !.user = user,
                         !.orderId = orderId, !.conc = Running]]
    /\ UNCHANGED <<stock, orders, order_items, restored, emails>>
    /\ UNCHANGED cartVars

\* SELECT id, status FROM orders WHERE id = ? AND user_id = ?, and the guards
CancelSelect(r) ==
    /\ req[r].kind = "cancel" /\ req[r].pc = "select"
    /\ LET id == req[r].orderId
           found == id \in DOMAIN orders /\ orders[id].user_id = req[r].user
       IN  IF ~found
           THEN req' = [req EXCEPT ![r] = Finish(req[r], 404)]
           ELSE IF CancelRefused(orders[id].status)
           THEN req' = [req EXCEPT ![r] =
                        Finish([req[r] EXCEPT !.status = orders[id].status], 400)]
           ELSE req' = [req EXCEPT ![r].pc = "update",
                                   ![r].status = orders[id].status]
    /\ UNCHANGED <<stock, orders, order_items, restored, emails>>
    /\ UNCHANGED cartVars

\* UPDATE orders SET status = "cancelled" WHERE id = ?
CancelUpdate(r) ==
    /\ req[r].kind = "cancel" /\ req[r].pc = "update"
    /\ orders' = [orders EXCEPT ![req[r].orderId].status = "cancelled"]
    /\ req' = [req EXCEPT ![r].pc = "select_items"]
    /\ UNCHANGED <<stock, order_items, restored, emails>>
    /\ UNCHANGED cartVars

\* SELECT product_id, quantity FROM order_items WHERE order_id = ?
CancelSelectItems(r) ==
    /\ req[r].kind = "cancel" /\ req[r].pc = "select_items"
    /\ LET ls == LinesOf(req[r].orderId) IN
       req' = IF Len(ls) = 0
              THEN [req EXCEPT ![r] = Finish(req[r], 200)]
              ELSE [req EXCEPT ![r].lines = ls, ![r].i = 1, ![r].pc = "restore"]
    /\ UNCHANGED <<stock, orders, order_items, restored, emails>>
    /\ UNCHANGED cartVars

\* a slip: one unit is added back whatever the line's quantity
RestoreStock_OneUnit(s, product_id, quantity) ==
    [s EXCEPT ![product_id] = s[product_id] + 1]

\* UPDATE products SET stock = stock + ? WHERE id = ?
RestoreStock(s, product_id, quantity) ==
    [s EXCEPT ![product_id] = s[product_id] + quantity]

CancelRestore(r) ==
    /\ req[r].kind = "cancel" /\ req[r].pc = "restore"
    /\ LET k == req[r].lines[req[r].i]
           item == order_items[k]
       IN  /\ stock' = RestoreStock(stock, item.product_id, item.quantity)
           /\ restored' = [restored EXCEPT ![k] = restored[k] + 1]
    /\ req' = IF req[r].i < Len(req[r].lines)
              THEN [req EXCEPT ![r].i = req[r].i + 1]
              ELSE [req EXCEPT ![r] = Finish([req[r] EXCEPT !.i = req[r].i + 1], 200)]
    /\ UNCHANGED <<orders, order_items, emails>>
    /\ UNCHANGED cartVars

\* a storage call of the cancel handler throws: catch, res.status(500)
CancelFail(r) ==
    /\ CanFail
    /\ req[r].kind = "cancel"
    /\ req[r].pc \in {"select", "update", "select_items", "restore"}
    /\ req' = [req EXCEPT ![r] = Finish(req[r], 500)]
    /\ UNCHANGED <<stock, orders, order_items, restored, emails>>
    /\ UNCHANGED cartVars

(* --------------------------------------------- PUT /orders/:id/status *)

StatusBegin(r, orderId, status) ==
    /\ CanBegin(r)
    /\ IF ~StatusValid(status)
       THEN req' = [req EXCEPT ![r] =
                [Idle EXCEPT !.kind = "status", !.pc = "done", !.orderId = orderId,
                             !.status = status, !.resp = 400,
                             !.conc = Running]]
       ELSE req' = [req EXCEPT ![r] =
                [Idle EXCEPT !.kind = "status", !.pc = "select", !.orderId = orderId,
                             !.status = status, !.conc = Running]]
    /\ UNCHANGED <<stock, orders, order_items, restored, emails>>
    /\ UNCHANGED cartVars

\* SELECT id FROM orders WHERE id = ?
StatusSelect(r) ==
    /\ req[r].kind = "status" /\ req[r].pc = "select"
    /\ req' = IF req[r].orderId \notin DOMAIN orders
              THEN [req EXCEPT ![r] = Finish(req[r], 404)]
              ELSE [req EXCEPT ![r].pc = "update"]
    /\ UNCHANGED <<stock, orders, order_items, restored, emails>>
    /\ UNCHANGED cartVars

\* UPDATE orders SET status = ? WHERE id = ?
StatusUpdate(r) ==
    /\ req[r].kind = "status" /\ req[r].pc = "update"
    /\ orders' = [orders EXCEPT ![req[r].orderId].status = req[r].status]
    /\ req' = [req EXCEPT ![r] = Finish(req[r], 200)]
    /\ UNCHANGED <<stock, order_items, restored, emails>>
    /\ UNCHANGED cartVars

\* a storage call of the status handler throws: catch, res.status(500)
StatusFail(r) ==
    /\ CanFail
    /\ req[r].kind = "status"
    /\ req[r].pc \in {"select", "update"}
    /\ req' = [req EXCEPT ![r] = Finish(req[r], 500)]
    /\ UNCHANGED <<stock, orders, order_items, restored, emails>>
    /\ UNCHANGED cartVars

(* ------------------------------------------------------ GET /orders/:id *)

GetBegin(r, user, orderId) ==
    /\ CanBegin(r)
    /\ req' = [req EXCEPT ![r] =
            [Idle EXCEPT !.kind = "get", !.pc = "select", !.user = user,
                         !.orderId = orderId, !.conc = Running]]
    /\ UNCHANGED <<stock, orders, order_items, restored, emails>>
    /\ UNCHANGED cartVars

\* SELECT * FROM orders WHERE id = ? for an admin,
\* SELECT * FROM orders WHERE id = ? AND user_id = ? for anyone else
GetSelect(r) ==
    /\ req[r].kind = "get" /\ req[r].pc = "select"
    /\ LET id == req[r].orderId
           found == IF req[r].user \in Admins
                    THEN id \in DOMAIN orders
                    ELSE id \in DOMAIN orders /\ orders[id].user_id = req[r].user
       IN  req' = IF ~found
                  THEN [req EXCEPT ![r] = Finish(req[r], 404)]
                  ELSE [req EXCEPT ![r].pc = "select_items"]
    /\ UNCHANGED <<stock, orders, order_items, restored, emails>>
    /\ UNCHANGED cartVars

\* SELECT oi.*, p.name as product_name FROM order_items oi LEFT JOIN products p
\* ON oi.product_id = p.id WHERE oi.order_id = ?: the result has two columns
\* called product_name, and a row object keeps the later one, p.name
OrderItemsJoined(orderId) ==
    LET ls == LinesOf(orderId) IN
    [k \in 1..Len(ls) |->
        [order_items[ls[k]] EXCEPT
            !.product_name = product_name[order_items[ls[k]].product_id]]]

GetSelectItems(r) ==
    /\ req[r].kind = "get" /\ req[r].pc = "select_items"
    /\ req' = [req EXCEPT ![r].body = OrderItemsJoined(req[r].orderId),
                          ![r].pc = "select_payments"]
    /\ UNCHANGED <<stock, orders, order_items, restored, emails>>
    /\ UNCHANGED cartVars

\* SELECT * FROM payments WHERE order_id = ?, then res.json({ order: {...order,
\* items: orderItems, ...} })
GetSelectPayments(r) ==
    /\ req[r].kind = "get" /\ req[r].pc = "select_payments"
    /\ req' = [req EXCEPT ![r] = Finish(req[r], 200)]
    /\ UNCHANGED <<stock, orders, order_items, restored, emails>>
    /\ UNCHANGED cartVars

(* ------------------------------------------------------- specifications *)

\* the storage calls of the handlers in flight
Steps ==
    \/ \E r \in Reqs : CreateInsertOrder(r)
    \/ \E r \in Reqs : CreateInsertItem(r)
    \/ \E r \in Reqs : CreateUpdateStock(r)
    \/ \E r \in Reqs : CreateEmail(r)
    \/ \E r \in Reqs : CancelSelect(r)
    \/ \E r \in Reqs : CancelUpdate(r)
    \/ \E r \in Reqs : CancelSelectItems(r)
    \/ \E r \in Reqs : CancelRestore(r)
    \/ \E r \in Reqs : StatusSelect(r)
    \/ \E r \in Reqs : StatusUpdate(r)

\* a storage call throws
Faults ==
    \/ \E r \in Reqs : CreateFail(r)
    \/ \E r \in Reqs : CancelFail(r)
    \/ \E r \in Reqs : StatusFail(r)

\* Spec: any interleaving of the storage calls of up to MaxInFlight requests,
\* up to MaxFaults storage calls throw; orders of one line at catalogue price.
\* Here and in SeqSpec and PriceSpec the requests draw distinct order numbers.
Next ==
    \/ \E r \in Reqs, u \in Buyers, ok \in BOOLEAN, items \in ItemLists(CataloguePrices, 1) :
          CreateBegin(r, u, ok, items, r)
    \/ \E r \in Reqs, u \in Users, id \in OrderIds : CancelBegin(r, u, id)
    \/ \E r \in Reqs, id \in OrderIds, s \in StatusInputs : StatusBegin(r, id, s)
    \/ Steps
    \/ Faults

Spec == Init /\ [][Next]_vars

\* SeqSpec: one request at a time and no storage call throws; orders of up to
\* MaxLines lines at catalogue price, placed by any user
SeqNext ==
    \/ /\ Running = {}
       /\ \E r \in Reqs, u \in Users, ok \in BOOLEAN,
             items \in ItemLists(CataloguePrices, MaxLines) :
             CreateBegin(r, u, ok, items, r)
    \/ /\ Running = {}
       /\ \E r \in Reqs, u \in Users, id \in OrderIds : CancelBegin(r, u, id)
    \/ /\ Running = {}
       /\ \E r \in Reqs, id \in OrderIds, s \in StatusInputs : StatusBegin(r, id, s)
    \/ Steps

SeqSpec == Init /\ [][SeqNext]_vars

\* PriceSpec: order creation with any submitted unit price, one request at a
\* time, up to MaxFaults storage calls throw
PriceNext ==
    \/ /\ Running = {}
       /\ \E r \in Reqs, u \in Buyers, ok \in BOOLEAN,
             items \in ItemLists(Prices, MaxLines) :
             CreateBegin(r, u, ok, items, r)
    \/ \E r \in Reqs : CreateInsertOrder(r)
    \/ \E r \in Reqs : CreateInsertItem(r)
    \/ \E r \in Reqs : CreateUpdateStock(r)
    \/ \E r \in Reqs : CreateEmail(r)
    \/ \E r \in Reqs : CreateFail(r)

PriceSpec == Init /\ [][PriceNext]_vars

(* ------------------------------------------------ cart (src/routes/cart.js) *)

\* an unauthenticated caller: optionalAuth leaves req.user undefined
Guest == 0
\* who calls the cart routes: a guest or the authenticated shopper
Callers == {Guest} \cup Buyers
\* the product ids a client names: those of the catalogue and one more
ProductIds == Products \cup {3}
\* the quantities a client submits to the cart routes, 0 included
CartQuantities == 0..MaxQty
\* the session ids a client names: none (0), those generated so far
\* (deleted ones included) and one that is never generated (-1)
Tokens == {-1} \cup (0..Len(cart_sessions))
\* the session id a caller holds: none (0), or for a guest that of an
\* anonymous cart session in storage
HeldTokens(user) ==
    IF user # Guest THEN {0}
    ELSE {0} \cup {s \in 1..Len(cart_sessions) :
                     cart_sessions[s].live /\ cart_sessions[s].user_id = 0}
\* the cart line ids a client names: those inserted so far and one more
ItemIds == 1..(Len(cart_items) + 1)

\* a deleted row of cart_sessions, of cart_items
NoSession == [user_id |-> 0, live |-> FALSE]
NoItem == [session_id |-> 0, product_id |-> 0, quantity |-> 0]

\* SELECT session_id FROM cart_sessions WHERE user_id = ?
SessionsOf(userId) ==
    {s \in 1..Len(cart_sessions) :
        cart_sessions[s].live /\ cart_sessions[s].user_id = userId}

\* sessions[0]: the row with the lowest id
First(S) == CHOOSE x \in S : \A y \in S : x <= y

\* SELECT id, quantity FROM cart_items WHERE session_id = ? AND product_id = ?
ExistingItems(rows, sessionId, productId) ==
    {k \in 1..Len(rows) :
        rows[k].session_id = sessionId /\ rows[k].product_id = productId}

\* SELECT product_id, quantity FROM cart_items WHERE session_id = ?
GuestItems(sessionId) ==
    LET ids == SelectSeq([k \in 1..Len(cart_items) |-> k],
                         LAMBDA k : cart_items[k].session_id = sessionId)
    IN  [j \in 1..Len(ids) |->
            [product_id |-> cart_items[ids[j]].product_id,
             quantity   |-> cart_items[ids[j]].quantity]]

\* INSERT INTO cart_sessions (session_id, user_id): the id is a fresh uuid
InsertSession(userId) == Append(cart_sessions, [user_id |-> userId, live |-> TRUE])

\* UNIQUE KEY unique_session_product (session_id, product_id)
UniqueSessionProduct(rows, sessionId, productId) ==
    ExistingItems(rows, sessionId, productId) = {}

\* UPDATE cart_items SET quantity = ? WHERE id = ?
SetQuantity(rows, id, quantity) ==
    IF id \in DOMAIN rows /\ rows[id] # NoItem
    THEN [rows EXCEPT ![id].quantity = quantity]
    ELSE rows

\* DELETE FROM cart_items WHERE id = ?
DeleteItem(rows, id) ==
    IF id \in DOMAIN rows THEN [rows EXCEPT ![id] = NoItem] ELSE rows

\* a slip: the lines of the merged session are not deleted
DeleteItemsOf_Keep(rows, sessionId) == rows

\* DELETE FROM cart_items WHERE session_id = ?
DeleteItemsOf(rows, sessionId) ==
    [k \in 1..Len(rows) |-> IF rows[k].session_id = sessionId THEN NoItem ELSE rows[k]]

\* DELETE FROM cart_sessions WHERE session_id = ?
DeleteSession(rows, sessionId) ==
    IF sessionId \in DOMAIN rows THEN [rows EXCEPT ![sessionId] = NoSession] ELSE rows

(* ---- POST /cart/add *)

\* body('productId').isInt({ min: 1 }), body('quantity').isInt({ min: 1 })
AddValid(productId, quantity) == productId >= 1 /\ quantity >= 1

\* sessionId is the session id the client holds; the handler reads only
\* productId and quantity from the body
AddBegin(r, user, sessionId, productId, quantity) ==
    /\ CanBegin(r)
    /\ req' = [req EXCEPT ![r] =
            [Idle EXCEPT !.kind = "add", !.user = user, !.sessionId = sessionId,
                         !.productId = productId, !.quantity = quantity,
                         !.pc = IF AddValid(productId, quantity)
                                THEN "select_product" ELSE "done",
                         !.resp = IF AddValid(productId, quantity) THEN 0 ELSE 400,
                         !.conc = Running, !.cart0 = cart_items]]
    /\ UNCHANGED <<stock, orders, order_items, restored, emails, cartVars>>

\* SELECT ... FROM products WHERE id = ? AND status = "active", and the
\* first stock check
AddSelectProduct(r) ==
    /\ req[r].kind = "add" /\ req[r].pc = "select_product"
    /\ LET p == req[r].productId
           found == p \in Products /\ product_status[p] = "active"
       IN  IF ~found
           THEN req' = [req EXCEPT ![r] = Finish(req[r], 404)]
           ELSE IF stock[p] < req[r].quantity
           THEN req' = [req EXCEPT ![r] = Finish(req[r], 400)]
           ELSE req' = [req EXCEPT ![r].stockRead = stock[p],
                                   ![r].pc = IF req[r].user # Guest
                                             THEN "select_session"
                                             ELSE "insert_session"]
    /\ UNCHANGED <<stock, orders, order_items, restored, emails, cartVars>>

\* getOrCreateCartSession: SELECT session_id FROM cart_sessions WHERE user_id = ?
AddSelectSession(r) ==
    /\ req[r].kind = "add" /\ req[r].pc = "select_session"
    /\ LET sessions == SessionsOf(req[r].user) IN
       req' = IF sessions # {}
              THEN [req EXCEPT ![r].session = First(sessions),
                               ![r].pc = "select_existing"]
              ELSE [req EXCEPT ![r].pc = "insert_session"]
    /\ UNCHANGED <<stock, orders, order_items, restored, emails, cartVars>>

\* getOrCreateCartSession: INSERT INTO cart_sessions
AddInsertSession(r) ==
    /\ req[r].kind = "add" /\ req[r].pc = "insert_session"
    /\ cart_sessions' = InsertSession(req[r].user)
    /\ req' = [req EXCEPT ![r].session = Len(cart_sessions) + 1,
                          ![r].pc = "select_existing"]
    /\ UNCHANGED <<stock, orders, order_items, restored, emails,
                   product_status, cart_items, product_name, smtp_up>>

\* a slip: the cumulative quantity is not checked against the stock
AddRefused_NoCumulative(newQuantity, productStock) == FALSE

\* if (newQuantity > product.stock)
AddRefused(newQuantity, productStock) == newQuantity > productStock

\* SELECT id, quantity FROM cart_items WHERE session_id = ? AND product_id = ?,
\* and the second stock check
AddSelectExisting(r) ==
    /\ req[r].kind = "add" /\ req[r].pc = "select_existing"
    /\ LET existingItems == ExistingItems(cart_items, req[r].session, req[r].productId)
       IN  IF existingItems = {}
           THEN req' = [req EXCEPT ![r].pc = "insert"]
           ELSE LET id == First(existingItems)
                    newQuantity == cart_items[id].quantity + req[r].quantity
                IN  IF AddRefused(newQuantity, req[r].stockRead)
                    THEN req' = [req EXCEPT ![r] = Finish(req[r], 400)]
                    ELSE req' = [req EXCEPT ![r].existingId = id,
                                            ![r].newQuantity = newQuantity,
                                            ![r].pc = "update"]
    /\ UNCHANGED <<stock, orders, order_items, restored, emails, cartVars>>

\* UPDATE cart_items SET quantity = ? WHERE id = ?, then res.json
AddUpdate(r) ==
    /\ req[r].kind = "add" /\ req[r].pc = "update"
    /\ cart_items' = SetQuantity(cart_items, req[r].existingId, req[r].newQuantity)
    /\ req' = [req EXCEPT ![r] = Finish(req[r], 200)]
    /\ UNCHANGED <<stock, orders, order_items, restored, emails,
                   product_status, cart_sessions, product_name, smtp_up>>

\* a slip: the table has no unique key on (session_id, product_id)
InsertCartItem_NoUnique(rows, sessionId, productId, quantity) ==
    Append(rows, [session_id |-> sessionId, product_id |-> productId,
                  quantity |-> quantity])

\* INSERT INTO cart_items (session_id, product_id, quantity): the rows after
\* the insert; the rows are unchanged when the unique key rejects it
InsertCartItem(rows, sessionId, productId, quantity) ==
    IF UniqueSessionProduct(rows, sessionId, productId)
    THEN Append(rows, [session_id |-> sessionId, product_id |-> productId,
                       quantity |-> quantity])
    ELSE rows

\* INSERT INTO cart_items, then res.json; a rejected insert throws: catch, 500
AddInsert(r) ==
    /\ req[r].kind = "add" /\ req[r].pc = "insert"
    /\ cart_items' = InsertCartItem(cart_items, req[r].session, req[r].productId,
                                    req[r].quantity)
    /\ req' = [req EXCEPT ![r] =
                 Finish(req[r], IF cart_items' # cart_items THEN 200 ELSE 500)]
    /\ UNCHANGED <<stock, orders, order_items, restored, emails,
                   product_status, cart_sessions, product_name, smtp_up>>

(* ---- PUT /cart/update/:itemId *)

\* body('quantity').isInt({ min: 0 })
UpdateValid(quantity) == quantity >= 0

\* sessionId is the session id the client holds; the handler never reads it
UpdateBegin(r, user, sessionId, itemId, quantity) ==
    /\ CanBegin(r)
    /\ req' = [req EXCEPT ![r] =
            [Idle EXCEPT !.kind = "update", !.user = user, !.sessionId = sessionId,
                         !.itemId = itemId, !.quantity = quantity,
                         !.pc = IF UpdateValid(quantity) THEN "select_item" ELSE "done",
                         !.resp = IF UpdateValid(quantity) THEN 0 ELSE 400,
                         !.conc = Running, !.cart0 = cart_items]]
    /\ UNCHANGED <<stock, orders, order_items, restored, emails, cartVars>>

\* the handler after the ownership check: if (quantity === 0) ... else the
\* stock check
UpdateAfterCheck(rec) ==
    IF rec.quantity = 0 THEN [rec EXCEPT !.pc = "delete"]
    ELSE IF rec.quantity > rec.stockRead THEN Finish(rec, 400)
    ELSE [rec EXCEPT !.pc = "update"]

\* SELECT ci.*, p.stock FROM cart_items ci JOIN products p ... WHERE ci.id = ?
UpdateSelectItem(r) ==
    /\ req[r].kind = "update" /\ req[r].pc = "select_item"
    /\ LET id == req[r].itemId
           found == id \in DOMAIN cart_items /\ cart_items[id] # NoItem
       IN  IF ~found
           THEN req' = [req EXCEPT ![r] = Finish(req[r], 404)]
           ELSE LET rec == [req[r] EXCEPT
                               !.session = cart_items[id].session_id,
                               !.productId = cart_items[id].product_id,
                               !.stockRead = stock[cart_items[id].product_id]]
                IN  req' = [req EXCEPT ![r] =
                               IF req[r].user # Guest
                               THEN [rec EXCEPT !.pc = "check_owner"]
                               ELSE UpdateAfterCheck(rec)]
    /\ UNCHANGED <<stock, orders, order_items, restored, emails, cartVars>>

\* SELECT id FROM cart_sessions WHERE session_id = ? AND user_id = ?
OwnsSession(sessionId, userId) == sessionId \in SessionsOf(userId)

UpdateCheckOwner(r) ==
    /\ req[r].kind = "update" /\ req[r].pc = "check_owner"
    /\ req' = [req EXCEPT ![r] =
                 IF ~OwnsSession(req[r].session, req[r].user)
                 THEN Finish(req[r], 403)
                 ELSE UpdateAfterCheck(req[r])]
    /\ UNCHANGED <<stock, orders, order_items, restored, emails, cartVars>>

\* DELETE FROM cart_items WHERE id = ?, then res.json
UpdateDelete(r) ==
    /\ req[r].kind = "update" /\ req[r].pc = "delete"
    /\ cart_items' = DeleteItem(cart_items, req[r].itemId)
    /\ req' = [req EXCEPT ![r] = Finish(req[r], 200)]
    /\ UNCHANGED <<stock, orders, order_items, restored, emails,
                   product_status, cart_sessions, product_name, smtp_up>>

\* UPDATE cart_items SET quantity = ? WHERE id = ?, then res.json
UpdateSet(r) ==
    /\ req[r].kind = "update" /\ req[r].pc = "update"
    /\ cart_items' = SetQuantity(cart_items, req[r].itemId, req[r].quantity)
    /\ req' = [req EXCEPT ![r] = Finish(req[r], 200)]
    /\ UNCHANGED <<stock, orders, order_items, restored, emails,
                   product_status, cart_sessions, product_name, smtp_up>>

(* ---- DELETE /cart/remove/:itemId *)

RemoveBegin(r, user, sessionId, itemId) ==
    /\ CanBegin(r)
    /\ req' = [req EXCEPT ![r] =
            [Idle EXCEPT !.kind = "remove", !.user = user, !.sessionId = sessionId,
                         !.itemId = itemId, !.pc = "select_item",
                         !.conc = Running, !.cart0 = cart_items]]
    /\ UNCHANGED <<stock, orders, order_items, restored, emails, cartVars>>

\* SELECT session_id FROM cart_items WHERE id = ?
RemoveSelectItem(r) ==
    /\ req[r].kind = "remove" /\ req[r].pc = "select_item"
    /\ LET id == req[r].itemId
           found == id \in DOMAIN cart_items /\ cart_items[id] # NoItem
       IN  req' = IF ~found
                  THEN [req EXCEPT ![r] = Finish(req[r], 404)]
                  ELSE [req EXCEPT ![r].session = cart_items[id].session_id,
                                   ![r].productId = cart_items[id].product_id,
                                   ![r].pc = IF req[r].user # Guest
                                             THEN "check_owner" ELSE "delete"]
    /\ UNCHANGED <<stock, orders, order_items, restored, emails, cartVars>>

RemoveCheckOwner(r) ==
    /\ req[r].kind = "remove" /\ req[r].pc = "check_owner"
    /\ req' = IF ~OwnsSession(req[r].session, req[r].user)
              THEN [req EXCEPT ![r] = Finish(req[r], 403)]
              ELSE [req EXCEPT ![r].pc = "delete"]
    /\ UNCHANGED <<stock, orders, order_items, restored, emails, cartVars>>

\* DELETE FROM cart_items WHERE id = ?, then res.json
RemoveDelete(r) ==
    /\ req[r].kind = "remove" /\ req[r].pc = "delete"
    /\ cart_items' = DeleteItem(cart_items, req[r].itemId)
    /\ req' = [req EXCEPT ![r] = Finish(req[r], 200)]
    /\ UNCHANGED <<stock, orders, order_items, restored, emails,
                   product_status, cart_sessions, product_name, smtp_up>>

(* ---- POST /cart/merge *)

\* authenticateToken: the caller is a user; if (!sessionId) return 400
MergeBegin(r, user, sessionId) ==
    /\ CanBegin(r)
    /\ req' = [req EXCEPT ![r] =
            [Idle EXCEPT !.kind = "merge", !.user = user, !.sessionId = sessionId,
                         !.pc = IF sessionId = 0 THEN "done" ELSE "select_session",
                         !.resp = IF sessionId = 0 THEN 400 ELSE 0,
                         !.conc = Running, !.cart0 = cart_items]]
    /\ UNCHANGED <<stock, orders, order_items, restored, emails, cartVars>>

\* SELECT session_id FROM cart_sessions WHERE user_id = ?
MergeSelectSession(r) ==
    /\ req[r].kind = "merge" /\ req[r].pc = "select_session"
    /\ LET userSessions == SessionsOf(req[r].user) IN
       req' = IF userSessions = {}
              THEN [req EXCEPT ![r].pc = "insert_session"]
              ELSE [req EXCEPT ![r].session = First(userSessions),
                               ![r].pc = "select_guest"]
    /\ UNCHANGED <<stock, orders, order_items, restored, emails, cartVars>>

\* INSERT INTO cart_sessions (session_id, user_id)
MergeInsertSession(r) ==
    /\ req[r].kind = "merge" /\ req[r].pc = "insert_session"
    /\ cart_sessions' = InsertSession(req[r].user)
    /\ req' = [req EXCEPT ![r].session = Len(cart_sessions) + 1,
                          ![r].pc = "select_guest"]
    /\ UNCHANGED <<stock, orders, order_items, restored, emails,
                   product_status, cart_items, product_name, smtp_up>>

\* SELECT product_id, quantity FROM cart_items WHERE session_id = ?
MergeSelectGuest(r) ==
    /\ req[r].kind = "merge" /\ req[r].pc = "select_guest"
    /\ LET guestItems == GuestItems(req[r].sessionId) IN
       req' = [req EXCEPT ![r].guestItems = guestItems,
                          ![r].i = 1,
                          ![r].pc = IF Len(guestItems) = 0
                                    THEN "delete_session" ELSE "select_existing"]
    /\ UNCHANGED <<stock, orders, order_items, restored, emails, cartVars>>

\* a slip: the guest quantity replaces the user's quantity
MergedQuantity_Replace(existingQuantity, guestQuantity) == guestQuantity

\* const newQuantity = existingItems[0].quantity + item.quantity
MergedQuantity(existingQuantity, guestQuantity) == existingQuantity + guestQuantity

\* SELECT id, quantity FROM cart_items WHERE session_id = ? AND product_id = ?
\* for guest item i
MergeSelectExisting(r) ==
    /\ req[r].kind = "merge" /\ req[r].pc = "select_existing"
    /\ LET item == req[r].guestItems[req[r].i]
           existingItems == ExistingItems(cart_items, req[r].session, item.product_id)
       IN  req' = IF existingItems = {}
                  THEN [req EXCEPT ![r].pc = "insert"]
                  ELSE [req EXCEPT ![r].existingId = First(existingItems),
                                   ![r].newQuantity =
                                       MergedQuantity(cart_items[First(existingItems)].quantity,
                                                      item.quantity),
                                   ![r].pc = "update"]
    /\ UNCHANGED <<stock, orders, order_items, restored, emails, cartVars>>

\* the item loop goes on to the next guest item, or ends
MergeAdvance(rec) ==
    [rec EXCEPT !.i = rec.i + 1, !.existingId = 0, !.newQuantity = 0,
                !.pc = IF rec.i < Len(rec.guestItems)
                       THEN "select_existing" ELSE "delete_session"]

\* UPDATE cart_items SET quantity = ? WHERE id = ?  for guest item i
MergeUpdate(r) ==
    /\ req[r].kind = "merge" /\ req[r].pc = "update"
    /\ cart_items' = SetQuantity(cart_items, req[r].existingId, req[r].newQuantity)
    /\ req' = [req EXCEPT ![r] = MergeAdvance(req[r])]
    /\ UNCHANGED <<stock, orders, order_items, restored, emails,
                   product_status, cart_sessions, product_name, smtp_up>>

\* INSERT INTO cart_items for guest item i; a rejected insert throws: catch, 500
MergeInsert(r) ==
    /\ req[r].kind = "merge" /\ req[r].pc = "insert"
    /\ LET item == req[r].guestItems[req[r].i] IN
       cart_items' = InsertCartItem(cart_items, req[r].session, item.product_id,
                                    item.quantity)
    /\ req' = [req EXCEPT ![r] =
                 IF cart_items' # cart_items THEN MergeAdvance(req[r])
                 ELSE Finish(req[r], 500)]
    /\ UNCHANGED <<stock, orders, order_items, restored, emails,
                   product_status, cart_sessions, product_name, smtp_up>>

\* DELETE FROM cart_sessions WHERE session_id = ?
MergeDeleteSession(r) ==
    /\ req[r].kind = "merge" /\ req[r].pc = "delete_session"
    /\ cart_sessions' = DeleteSession(cart_sessions, req[r].sessionId)
    /\ req' = [req EXCEPT ![r].pc = "delete_items"]
    /\ UNCHANGED <<stock, orders, order_items, restored, emails,
                   product_status, cart_items, product_name, smtp_up>>

\* DELETE FROM cart_items WHERE session_id = ?, then res.json
MergeDeleteItems(r) ==
    /\ req[r].kind = "merge" /\ req[r].pc = "delete_items"
    /\ cart_items' = DeleteItemsOf(cart_items, req[r].sessionId)
    /\ req' = [req EXCEPT ![r] = Finish(req[r], 200)]
    /\ UNCHANGED <<stock, orders, order_items, restored, emails,
                   product_status, cart_sessions, product_name, smtp_up>>

(* ---- PUT /products/:id (admin), src/unnamed/part_004 *)

\* an optional body field: <<>> when absent, <<v>> when present
StockInputs == {<<>>, <<-1>>, <<1>>}
StatusFieldInputs == {<<>>, <<"inactive">>}
NameInputs == {<<>>, <<"">>, <<"olive oil">>}

\* body("name").optional().trim().notEmpty(),
\* body("stock").optional().isInt({ min: 0 })
ProductValid(nameIn, stockIn) ==
    /\ Len(nameIn) = 0 \/ nameIn[1] # ""
    /\ Len(stockIn) = 0 \/ stockIn[1] >= 0

\* COALESCE(?, column)
Coalesce(field, column) == IF Len(field) = 0 THEN column ELSE field[1]

ProductBegin(r, productId, nameIn, stockIn, statusIn) ==
    /\ CanBegin(r)
    /\ req' = [req EXCEPT ![r] =
            [Idle EXCEPT !.kind = "product", !.productId = productId,
                         !.nameIn = nameIn,
                         !.stockIn = stockIn, !.statusIn = statusIn,
                         !.pc = IF ProductValid(nameIn, stockIn) THEN "select" ELSE "done",
                         !.resp = IF ProductValid(nameIn, stockIn) THEN 0 ELSE 400,
                         !.conc = Running, !.cart0 = cart_items]]
    /\ UNCHANGED <<stock, orders, order_items, restored, emails, cartVars>>

\* SELECT id FROM products WHERE id = ?
ProductSelect(r) ==
    /\ req[r].kind = "product" /\ req[r].pc = "select"
    /\ req' = IF req[r].productId \notin Products
              THEN [req EXCEPT ![r] = Finish(req[r], 404)]
              ELSE [req EXCEPT ![r].pc = "update"]
    /\ UNCHANGED <<stock, orders, order_items, restored, emails, cartVars>>

\* UPDATE products SET name = COALESCE(?, name), ..., stock = COALESCE(?, stock),
\* ..., status = COALESCE(?, status) WHERE id = ?, then res.json
ProductUpdate(r) ==
    /\ req[r].kind = "product" /\ req[r].pc = "update"
    /\ LET p == req[r].productId IN
       /\ product_name' = [product_name EXCEPT ![p] = Coalesce(req[r].nameIn, product_name[p])]
       /\ stock' = [stock EXCEPT ![p] = Coalesce(req[r].stockIn, stock[p])]
       /\ product_status' =
             [product_status EXCEPT ![p] = Coalesce(req[r].statusIn, product_status[p])]
    /\ req' = [req EXCEPT ![r] = Finish(req[r], 200)]
    /\ UNCHANGED <<orders, order_items, restored, emails, cart_sessions, cart_items,
                   smtp_up>>

(* ---- the cart and catalogue specifications *)

\* the storage calls of the cart and product handlers in flight
CartSteps ==
    \/ \E r \in Reqs : AddSelectProduct(r)
    \/ \E r \in Reqs : AddSelectSession(r)
    \/ \E r \in Reqs : AddInsertSession(r)
    \/ \E r \in Reqs : AddSelectExisting(r)
    \/ \E r \in Reqs : AddUpdate(r)
    \/ \E r \in Reqs : AddInsert(r)
    \/ \E r \in Reqs : UpdateSelectItem(r)
    \/ \E r \in Reqs : UpdateCheckOwner(r)
    \/ \E r \in Reqs : UpdateDelete(r)
    \/ \E r \in Reqs : UpdateSet(r)
    \/ \E r \in Reqs : RemoveSelectItem(r)
    \/ \E r \in Reqs : RemoveCheckOwner(r)
    \/ \E r \in Reqs : RemoveDelete(r)
    \/ \E r \in Reqs : MergeSelectSession(r)
    \/ \E r \in Reqs : MergeInsertSession(r)
    \/ \E r \in Reqs : MergeSelectGuest(r)
    \/ \E r \in Reqs : MergeSelectExisting(r)
    \/ \E r \in Reqs : MergeUpdate(r)
    \/ \E r \in Reqs : MergeInsert(r)
    \/ \E r \in Reqs : MergeDeleteSession(r)
    \/ \E r \in Reqs : MergeDeleteItems(r)

\* CartSeqSpec: the cart routes and the product update, one request at a time
CartSeqNext ==
    \/ /\ Running = {}
       /\ \E r \in Reqs, u \in Callers, p \in ProductIds, q \in CartQuantities :
             \E t \in HeldTokens(u) : AddBegin(r, u, t, p, q)
    \/ /\ Running = {}
       /\ \E r \in Reqs, u \in Callers, id \in ItemIds,
             q \in CartQuantities \cup {-1} :
             \E t \in HeldTokens(u) : UpdateBegin(r, u, t, id, q)
    \/ /\ Running = {}
       /\ \E r \in Reqs, u \in Callers, id \in ItemIds :
             \E t \in HeldTokens(u) : RemoveBegin(r, u, t, id)
    \/ /\ Running = {}
       /\ \E r \in Reqs, u \in Buyers, t \in Tokens : MergeBegin(r, u, t)
    \/ /\ Running = {}
       /\ \E r \in Reqs, p \in ProductIds, s \in StockInputs,
             st \in StatusFieldInputs : ProductBegin(r, p, <<>>, s, st)
    \/ CartSteps
    \/ \E r \in Reqs : ProductSelect(r)
    \/ \E r \in Reqs : ProductUpdate(r)

CartSeqSpec == Init /\ [][CartSeqNext]_vars

\* CartSpec: any interleaving of the storage calls of up to MaxInFlight cart
\* requests, with valid inputs; the callers hold no session id
CartNext ==
    \/ \E r \in Reqs, u \in Callers, p \in Products, q \in Quantities :
          AddBegin(r, u, 0, p, q)
    \/ \E r \in Reqs, u \in Callers, id \in ItemIds, q \in CartQuantities :
          UpdateBegin(r, u, 0, id, q)
    \/ \E r \in Reqs, u \in Callers, id \in ItemIds : RemoveBegin(r, u, 0, id)
    \/ \E r \in Reqs, u \in Buyers, t \in Tokens : MergeBegin(r, u, t)
    \/ CartSteps

CartSpec == Init /\ [][CartNext]_vars

(* ---- the shop specification *)

\* the order numbers generateOrderNumber returns when the clock and the
\* three-digit random number may repeat
OrderNumbers == {1, 2}

\* transporter.sendMail starts or stops rejecting
SmtpChange ==
    /\ smtp_up' = ~smtp_up
    /\ UNCHANGED <<stock, orders, order_items, req, restored, emails,
                   product_status, cart_sessions, cart_items, product_name>>

\* ShopSpec: a shopper fills the cart, checks out and reads the order while an
\* admin renames products and the mail transport comes and goes; one request
\* at a time, no storage call throws, order numbers may repeat
ShopNext ==
    \/ /\ Running = {}
       /\ \E r \in Reqs, u \in Buyers, ok \in BOOLEAN,
             items \in ItemLists(CataloguePrices, 1), n \in OrderNumbers :
             CreateBegin(r, u, ok, items, n)
    \/ /\ Running = {}
       /\ \E r \in Reqs, u \in Users, id \in OrderIds : GetBegin(r, u, id)
    \/ /\ Running = {}
       /\ \E r \in Reqs, p \in Products, n \in NameInputs :
             ProductBegin(r, p, n, <<>>, <<>>)
    \/ /\ Running = {}
       /\ \E r \in Reqs, u \in Buyers, p \in Products : AddBegin(r, u, 0, p, 1)
    \/ SmtpChange
    \/ \E r \in Reqs : CreateInsertOrder(r)
    \/ \E r \in Reqs : CreateInsertItem(r)
    \/ \E r \in Reqs : CreateUpdateStock(r)
    \/ \E r \in Reqs : CreateEmail(r)
    \/ \E r \in Reqs : GetSelect(r)
    \/ \E r \in Reqs : GetSelectItems(r)
    \/ \E r \in Reqs : GetSelectPayments(r)
    \/ \E r \in Reqs : ProductSelect(r)
    \/ \E r \in Reqs : ProductUpdate(r)
    \/ \E r \in Reqs : AddSelectProduct(r)
    \/ \E r \in Reqs : AddSelectSession(r)
    \/ \E r \in Reqs : AddInsertSession(r)
    \/ \E r \in Reqs : AddSelectExisting(r)
    \/ \E r \in Reqs : AddUpdate(r)
    \/ \E r \in Reqs : AddInsert(r)

ShopSpec == Init /\ [][ShopNext]_vars

(* ------------------------------------------------------------ measures *)

Quiescent == Running = {}

Done(r) == req[r].pc = "done"

RECURSIVE SumOver(_, _)
\* the sum of f[k] over the first n indices
SumOver(f, n) == IF n = 0 THEN 0 ELSE SumOver(f, n - 1) + f[n]

\* the units of product p on the lines of orders that are not cancelled
Outstanding(p) ==
    SumOver([k \in 1..Len(order_items) |->
                IF order_items[k].product_id = p
                   /\ orders[order_items[k].order_id].status # "cancelled"
                THEN order_items[k].quantity ELSE 0],
            Len(order_items))

\* the units of product p on the lines of one order
QtyOf(orderId, p) ==
    SumOver([k \in 1..Len(order_items) |->
                IF order_items[k].product_id = p /\ order_items[k].order_id = orderId
                THEN order_items[k].quantity ELSE 0],
            Len(order_items))

\* the units of product p taken by all lines, less those added back
Ledger(p) ==
    SumOver([k \in 1..Len(order_items) |->
                IF order_items[k].product_id = p
                THEN order_items[k].quantity * (1 - restored[k]) ELSE 0],
            Len(order_items))

\* the cancel requests that answered 200 for one order
Cancels(orderId) ==
    {r \in Reqs : req[r].kind = "cancel" /\ Done(r) /\ req[r].resp = 200
                  /\ req[r].orderId = orderId}

\* no storage call has thrown
NoFault == \A r \in Reqs : req[r].resp # 500

\* no request began while another was in flight
Sequential == \A r \in Reqs : req[r].conc = {}

\* the request issued last
Latest(r) == req[r].pc # "idle" /\ (IF r = NReq THEN TRUE ELSE req[r + 1].pc = "idle")

(* -------------------------------------------------------------- claims *)

\* C1: after any sequence of completed order creations and cancellations,
\* every product's stock is its initial stock minus the quantities on the
\* lines of the orders that are not cancelled, and an order whose
\* cancellation answered 200 is in status cancelled.
C1_StockConservation ==
    (Quiescent /\ \A r \in Reqs : req[r].kind \in {"none", "create", "cancel"})
    => /\ \A p \in Products : stock[p] = InitStock - Outstanding(p)
       /\ \A r \in Reqs : (req[r].kind = "cancel" /\ req[r].resp = 200)
                          => orders[req[r].orderId].status = "cancelled"

\* an order was created and then cancelled, another order was created after
C1_Witness ==
    /\ req[1].kind = "create" /\ req[1].resp = 201
    /\ req[2].kind = "cancel" /\ req[2].resp = 200
    /\ req[3].kind = "create" /\ req[3].resp = 201
    /\ stock # [p \in Products |-> InitStock]

\* C2: when two order creations for one product run concurrently and their
\* combined quantity exceeds the available stock, at most one of them
\* succeeds.
C2_NoOversell ==
    \A r1, r2 \in Reqs :
        (/\ r1 # r2
         /\ req[r1].kind = "create" /\ req[r2].kind = "create"
         /\ r1 \in req[r2].conc
         /\ \A r \in Reqs \ {r1, r2} : req[r].kind = "none"
         /\ NoFault
         /\ req[r1].resp = 201 /\ req[r2].resp = 201)
        => \A p \in Products :
              QtyOf(req[r1].orderId, p) + QtyOf(req[r2].orderId, p) <= InitStock

\* C3: every product's stock is at least 0 in every reachable state.
C3_StockNonNegative == \A p \in Products : stock[p] >= 0

\* C4: an order creation with a line whose quantity exceeds the product's
\* current stock answers 400 (InsufficientStock) and persists no order
\* header, no order line and no stock change.
C4_InsufficientStockRejected ==
    \A r \in Reqs :
        (req[r].kind = "create" /\ req[r].over)
        => /\ req[r].orderId = 0
           /\ req[r].i = 0
           /\ Done(r) => req[r].resp = 400

\* C5: an order creation that answers with an error leaves no order header,
\* no order line and no stock decrement of that request behind.
C5_AllOrNothing ==
    \A r \in Reqs :
        (req[r].kind = "create" /\ Done(r) /\ req[r].resp = 500)
        => /\ req[r].orderId \notin DOMAIN orders
           /\ LinesOf(req[r].orderId) = <<>>
           /\ req[r].i <= 1

\* C6: once no request is in flight, also after a storage call of a cancel
\* request has thrown, no order cancelled by a cancel request has a line
\* whose quantity was not added back to the stock.
C6_CancelAtomic ==
    (Quiescent /\ Sequential /\ \A r \in Reqs : req[r].kind # "status")
    => \A k \in 1..Len(order_items) :
          orders[order_items[k].order_id].status = "cancelled" => restored[k] >= 1

\* C7: however cancel requests for one order interleave, the quantity of
\* each of its lines is added back to the stock at most once.
C7_RestoreOnce ==
    (NoFault /\ \A r \in Reqs : req[r].kind # "status")
    => \A k \in 1..Len(order_items) : restored[k] <= 1

\* C8: a cancel request that finds the order delivered or cancelled answers
\* 400 and changes neither the order nor any stock; one that finds it
\* pending, processing or shipped answers 200, leaves it cancelled and adds
\* the quantity of each of its lines to the stock exactly once.
C8_CancelByStatus ==
    Quiescent =>
       /\ \A r \in Reqs : (req[r].kind = "cancel" /\ req[r].resp # 404) =>
             /\ req[r].status \in {"delivered", "cancelled"} => req[r].resp = 400
             /\ req[r].status \in {"pending", "processing", "shipped"} => req[r].resp = 200
             /\ Latest(r) => orders[req[r].orderId].status =
                                IF req[r].resp = 400 THEN req[r].status ELSE "cancelled"
       /\ \A k \in 1..Len(order_items) :
             restored[k] = Cardinality(Cancels(order_items[k].order_id))
       /\ \A p \in Products : stock[p] = InitStock - Ledger(p)

\* an order of MaxLines lines was shipped, then cancelled
C8_Witness ==
    /\ req[1].kind = "create" /\ req[1].resp = 201
    /\ req[2].kind = "status" /\ req[2].resp = 200
    /\ req[3].kind = "cancel" /\ req[3].resp = 200 /\ req[3].status = "shipped"
    /\ Len(order_items) = MaxLines

\* C9: after any sequence of createOrder, cancelOrder and updateStatus, every
\* product's stock is its initial stock minus the quantities on the lines of
\* the orders that are not cancelled.
C9_LifecycleConservation ==
    Quiescent => \A p \in Products : stock[p] = InitStock - Outstanding(p)

\* C10: every persisted order has total_amount = subtotal + shipping_cost +
\* tax_amount.
C10_TotalIntegrity ==
    \A o \in 1..Len(orders) :
        orders[o].total_amount =
            orders[o].subtotal + orders[o].shipping_cost + orders[o].tax_amount

\* an order whose subtotal was rounded to the cent when stored is persisted
C10_Witness ==
    \E r \in Reqs :
        /\ req[r].kind = "create" /\ req[r].pc = "insert_item"
        /\ req[r].subtotal # orders[req[r].orderId].subtotal
        /\ Len(req[r].items) = MaxLines

\* the sum of total_price over the persisted lines of one order
LinesTotal(orderId) ==
    SumOver([k \in 1..Len(order_items) |->
                IF order_items[k].order_id = orderId
                THEN order_items[k].total_price ELSE 0],
            Len(order_items))

\* C11: once no request is in flight, also after a request that failed
\* part-way, the subtotal of every persisted order is the sum of total_price
\* over its persisted lines, and the total_price of every line is its
\* product_price times its quantity.
C11_LineTotals ==
    Quiescent =>
       /\ \A o \in 1..Len(orders) : orders[o].subtotal = LinesTotal(o)
       /\ \A k \in 1..Len(order_items) :
             order_items[k].total_price =
                order_items[k].product_price * order_items[k].quantity

\* C13: delivered and cancelled are terminal: no step of a cancelOrder or
\* updateStatus request changes the status of an order that is delivered or
\* cancelled.
C13_TerminalStates ==
    [][\A o \in 1..Len(orders) :
          orders[o].status \in {"delivered", "cancelled"}
          => orders'[o].status = orders[o].status]_vars

\* C20: a cancel request answers 404 when the order does not exist or is not
\* the caller's, unless the caller is an admin: an admin's cancel request for
\* an existing order of another user does not answer 404.
C20_AdminMayCancel ==
    \A r \in Reqs :
        (/\ req[r].kind = "cancel" /\ Done(r)
         /\ req[r].user \in Admins
         /\ req[r].orderId \in DOMAIN orders)
        => req[r].resp # 404

(* ------------------------------------------------------- cart measures *)

\* the units of product p on the lines of one session, in the rows given
QtyIn(rows, sessionId, p) ==
    SumOver([k \in 1..Len(rows) |->
                IF rows[k].session_id = sessionId /\ rows[k].product_id = p
                THEN rows[k].quantity ELSE 0],
            Len(rows))

\* the cart session bound to a user (0 when there is none)
UserCart(user) == IF SessionsOf(user) = {} THEN 0 ELSE First(SessionsOf(user))

\* the cart of the caller of request r: the session bound to the user; for a
\* guest the session whose id they hold, or the one made for them when they
\* hold none
CallerCart(r) ==
    IF req[r].user # Guest THEN UserCart(req[r].user)
    ELSE IF req[r].sessionId # 0 THEN req[r].sessionId
    ELSE req[r].session

\* the caller of request r may change the lines of a session: the user bound
\* to it, or a guest who holds the id of an anonymous session
Authorised(r, sessionId) ==
    IF req[r].user # Guest THEN OwnsSession(sessionId, req[r].user)
    ELSE req[r].sessionId = sessionId /\ OwnsSession(sessionId, Guest)

(* --------------------------------------------------------- claims, cont. *)

\* C12: only order creation and order cancellation change the stock: a step
\* of any other request (cart add, update, remove, merge, product update,
\* status update) leaves the stock of every product unchanged.
C12_StockFrame ==
    [][stock' # stock =>
          \E r \in Reqs : req'[r] # req[r] /\ req[r].kind \in {"create", "cancel"}]_vars

\* C14: a successful add leaves exactly one line for the product in the
\* caller's cart (anonymous or bound to a user), with the quantity it had
\* there before plus the quantity added; a successful update to c >= 1
\* leaves the line with quantity exactly c; an update to 0 of a line the
\* caller may change deletes the line and answers 200.
C14_AddThenUpdate ==
    \A r \in Reqs :
        (Latest(r) /\ Done(r)) =>
           /\ (req[r].kind = "add" /\ req[r].resp = 200) =>
                 /\ Cardinality(ExistingItems(cart_items, CallerCart(r),
                                              req[r].productId)) = 1
                 /\ QtyIn(cart_items, CallerCart(r), req[r].productId) =
                       QtyIn(req[r].cart0, CallerCart(r), req[r].productId)
                       + req[r].quantity
           /\ (req[r].kind = "update" /\ req[r].resp = 200 /\ req[r].quantity >= 1) =>
                 cart_items[req[r].itemId].quantity = req[r].quantity
           /\ (req[r].kind = "update" /\ req[r].quantity = 0
               /\ req[r].resp \notin {403, 404}) =>
                 /\ req[r].resp = 200
                 /\ cart_items[req[r].itemId] = NoItem

\* the units of product p the add handler finds in the cart it resolves for
\* the caller of request r: those in the user's session; a guest's cart is
\* made anew by every add and holds none
HeldBefore(r, p) ==
    IF req[r].user # Guest THEN QtyIn(req[r].cart0, UserCart(req[r].user), p) ELSE 0

C16_Authorised ==
    \A r \in Reqs :
        (/\ req[r].kind \in {"update", "remove"}
         /\ Latest(r) /\ Done(r)
         /\ req[r].session # 0
         /\ ~Authorised(r, req[r].session))
        => /\ req[r].resp = 403
           /\ cart_items = req[r].cart0

\* C17: after a successful merge of a session other than the user's own,
\* the user's session holds for every product the quantity it held before
\* plus the quantity the merged session held, on at most one line, and the
\* merged session and its lines are gone.
C17_MergeSums ==
    \A r \in Reqs :
        (/\ req[r].kind = "merge" /\ Latest(r) /\ Done(r) /\ req[r].resp = 200
         /\ req[r].sessionId # req[r].session)
        => /\ \A p \in Products :
                 /\ QtyIn(cart_items, req[r].session, p) =
                       QtyIn(req[r].cart0, req[r].session, p)
                       + QtyIn(req[r].cart0, req[r].sessionId, p)
                 /\ Cardinality(ExistingItems(cart_items, req[r].session, p)) <= 1
           /\ OwnsSession(req[r].session, req[r].user)
           /\ \A u \in Callers : ~OwnsSession(req[r].sessionId, u)
           /\ \A k \in 1..Len(cart_items) : cart_items[k].session_id # req[r].sessionId

\* a guest cart holding a product the user's cart holds too was merged
C17_Witness ==
    \E r \in Reqs, p \in Products :
        /\ req[r].kind = "merge" /\ Latest(r) /\ req[r].resp = 200
        /\ req[r].sessionId # req[r].session
        /\ QtyIn(req[r].cart0, req[r].session, p) > 0
        /\ QtyIn(req[r].cart0, req[r].sessionId, p) > 0

\* C18: a second merge of the same session into the same user's cart, made
\* right after a successful first one, answers 200 and leaves every cart
\* line as the first merge left it.
C18_MergeIdempotent ==
    \A r1, r2 \in Reqs :
        (/\ r2 = r1 + 1
         /\ req[r1].kind = "merge" /\ req[r1].resp = 200
         /\ req[r2].kind = "merge" /\ Done(r2) /\ Latest(r2)
         /\ req[r2].user = req[r1].user
         /\ req[r2].sessionId = req[r1].sessionId
         /\ req[r1].sessionId # req[r1].session)
        => /\ req[r2].resp = 200
           /\ cart_items = req[r2].cart0
           /\ \A p \in Products :
                 QtyIn(cart_items, req[r2].session, p) =
                    QtyIn(req[r1].cart0, req[r1].session, p)
                    + QtyIn(req[r1].cart0, req[r1].sessionId, p)

\* a guest cart with a line was merged into the user's cart twice
C18_Witness ==
    \E r1, r2 \in Reqs, p \in Products :
        /\ r2 = r1 + 1
        /\ req[r1].kind = "merge" /\ req[r1].resp = 200
        /\ req[r2].kind = "merge" /\ req[r2].resp = 200
        /\ req[r2].sessionId = req[r1].sessionId
        /\ req[r1].sessionId # req[r1].session
        /\ QtyIn(req[r1].cart0, req[r1].sessionId, p) > 0

\* C19: in every reachable state, however add, update, remove and merge
\* requests interleave, there is at most one cart line per session and
\* product.
C19_OneLinePerProduct ==
    \A s \in 1..Len(cart_sessions), p \in Products :
        Cardinality(ExistingItems(cart_items, s, p)) <= 1

\* an insert of a second line for a session and product was rejected: two
\* requests that overlapped both found no line, and the later insert threw
C19_Witness ==
    \E r1, r2 \in Reqs :
        /\ r1 # r2
        /\ r1 \in req[r2].conc
        /\ req[r1].kind \in {"add", "merge"} /\ req[r2].kind \in {"add", "merge"}
        /\ req[r1].session = req[r2].session
        /\ {req[r1].resp, req[r2].resp} = {200, 500}

(* ---------------------------------------------- claims of the checkout *)

\* C21: a create request that reached the confirmation mail answers 201
\* whether or not the mail was delivered, and what it wrote stays: the order,
\* one line per submitted line, and the stock decrements.
C21_MailFailureIsolated ==
    \A r \in Reqs :
        (req[r].kind = "create" /\ r \in emails /\ Done(r)) =>
            /\ req[r].resp = 201
            /\ req[r].orderId \in DOMAIN orders
            /\ Len(LinesOf(req[r].orderId)) = req[r].nItems
            /\ Quiescent => \A p \in Products : stock[p] = InitStock - Outstanding(p)

\* an order was created while the mail transport rejected the message
C21_Witness ==
    \E r \in Reqs :
        /\ req[r].kind = "create" /\ r \in emails /\ Done(r)
        /\ ~req[r].delivered
        /\ req[r].resp = 201
        /\ req[r].nItems > 0

\* C22: the lines Get order returns are the lines stored when the order was
\* created, whatever product edits came in between: product name, unit price,
\* quantity and line total.
C22_LinesFrozen ==
    \A r \in Reqs :
        (req[r].kind = "get" /\ Done(r) /\ req[r].resp = 200) =>
            \A k \in 1..Len(req[r].body) :
                LET stored == order_items[LinesOf(req[r].orderId)[k]] IN
                /\ req[r].body[k].product_name = stored.product_name
                /\ req[r].body[k].product_price = stored.product_price
                /\ req[r].body[k].quantity = stored.quantity
                /\ req[r].body[k].total_price = stored.total_price

\* C23: a create request whose order number is already taken leaves the
\* existing order as it is and is answered with a conflict, which is not the
\* response of an unexpected failure (500, 'Failed to create order').
C23_CollisionIsConflict ==
    \A r \in Reqs :
        (/\ req[r].kind = "create" /\ Done(r)
         /\ req[r].orderId = 0
         /\ OrderNumberTaken(orders, req[r].orderNumber)) =>
            /\ req[r].resp # 500
            /\ Cardinality({k \in DOMAIN orders :
                              orders[k].order_number = req[r].orderNumber}) = 1

\* C24: once a create request has answered 201 and nothing was requested
\* since, the buyer has no cart session and no cart line is left of it.
C24_CartCleared ==
    \A r \in Reqs :
        (req[r].kind = "create" /\ Done(r) /\ req[r].resp = 201 /\ Latest(r)) =>
            /\ SessionsOf(req[r].user) = {}
            /\ \A k \in DOMAIN cart_items :
                  cart_items[k] # NoItem =>
                      /\ cart_sessions[cart_items[k].session_id].live
                      /\ cart_sessions[cart_items[k].session_id].user_id # req[r].user

\* C25: a create request with an empty item list or a blank shipping field is
\* answered 400 in the step that receives it, a step that writes no order, no
\* line and no stock and sends no mail; the handler takes no further step.
C25_ValidationFirst ==
    [][\A r \in Reqs :
          (/\ req[r].pc = "idle"
           /\ req'[r].kind = "create"
           /\ (~req'[r].shippingOk \/ req'[r].nItems = 0)) =>
              /\ req'[r].pc = "done"
              /\ req'[r].resp = 400
              /\ UNCHANGED <<stock, orders, order_items, emails>>]_vars

\* after an order was created, a request with an empty item list and one with
\* a blank shipping field were answered 400
C25_Witness ==
    \E r1, r2 \in Reqs :
        /\ req[r1].kind = "create" /\ req[r1].resp = 400
        /\ req[r1].shippingOk /\ req[r1].nItems = 0
        /\ req[r2].kind = "create" /\ req[r2].resp = 400
        /\ ~req[r2].shippingOk /\ req[r2].nItems > 0
        /\ Len(orders) > 0 /\ Len(order_items) > 0

\* C26: a status request with a value outside the five statuses ends with 400
\* and one for an order that does not exist with 404, neither writing to
\* orders; any other ends with 200 and sets the order's status, whatever it
\* was, to the value sent and changes nothing else; a status request writes
\* in no other step.
C26_UpdateStatus ==
    [][\A r \in Reqs :
          (req'[r].kind = "status" /\ req'[r] # req[r]) =>
              IF req'[r].pc # "done" THEN orders' = orders
              ELSE IF req'[r].status \notin
                         {"pending", "processing", "shipped", "delivered", "cancelled"}
              THEN req'[r].resp = 400 /\ orders' = orders
              ELSE IF req'[r].orderId \notin DOMAIN orders
              THEN req'[r].resp = 404 /\ orders' = orders
              ELSE /\ req'[r].resp = 200
                   /\ orders' = [orders EXCEPT ![req'[r].orderId].status = req'[r].status]
      ]_vars

\* an order was set to cancelled and then, by a second request, to pending
C26_Witness ==
    \E r1, r2 \in Reqs :
        /\ r1 < r2
        /\ req[r1].kind = "status" /\ req[r1].resp = 200 /\ req[r1].status = "cancelled"
        /\ req[r2].kind = "status" /\ req[r2].resp = 200 /\ req[r2].status = "pending"
        /\ req[r1].orderId = req[r2].orderId
        /\ orders[req[r2].orderId].status = "pending"

\* C27: the confirmation mail of a create request is attempted in one step
\* only, the one that follows its last stock decrement, and not twice; a
\* request whose mail was attempted has its order header, one stored line per
\* submitted line and every decrement done, and does not end in an error.
C27_NotifyAfterPersist ==
    [][\A r \in Reqs :
          /\ (r \in emails' /\ r \notin emails) =>
                 req[r].kind = "create" /\ req[r].pc = "email"
          /\ (req[r].pc = "email" /\ req'[r] # req[r]) =>
                 r \notin emails /\ r \in emails'
          /\ r \in emails' =>
                 /\ req'[r].orderId \in DOMAIN orders'
                 /\ Len(SelectSeq(order_items',
                                  LAMBDA row : row.order_id = req'[r].orderId))
                      = req'[r].nItems
                 /\ req'[r].i = req'[r].nItems + 1
                 /\ req'[r].pc = "done" /\ req'[r].resp = 201
      ]_vars

\* an order of two lines was created and its mail attempted, and another
\* create request ended in an error after its header was written
C27_Witness ==
    \E r1, r2 \in Reqs :
        /\ req[r1].kind = "create" /\ req[r1].resp = 201 /\ req[r1].nItems = 2
        /\ r1 \in emails
        /\ req[r2].kind = "create" /\ req[r2].resp = 500 /\ req[r2].orderId # 0
        /\ r2 \notin emails

(* ------------------------------------------------- claims of the cart *)

\* C28: in every reachable state, however the cart requests interleave, at
\* most one cart session is bound to each user.
C28_OneSessionPerUser ==
    \A u \in Users : Cardinality(SessionsOf(u)) <= 1

\* C29: once a merge has answered 200 and nothing was requested since, the
\* user still has a cart session, and it holds of every product at least the
\* quantity the user's cart held before the merge, whatever session id was sent.
C29_MergeKeepsOwnCart ==
    \A r \in Reqs :
        (req[r].kind = "merge" /\ Done(r) /\ req[r].resp = 200 /\ Latest(r)) =>
            /\ SessionsOf(req[r].user) # {}
            /\ \A p \in Products :
                  QtyIn(cart_items, UserCart(req[r].user), p)
                      >= QtyIn(req[r].cart0, req[r].session, p)

\* C30: when two add requests of one user for one product overlap, write to
\* the same cart session and both answer 200, with nothing else requested
\* since the first began and the sum within stock, the line of that product
\* has grown by both quantities.
C30_NoLostUpdate ==
    \A r1, r2 \in Reqs :
        LET p == req[r1].productId
            before == QtyIn(req[r1].cart0, req[r1].session, p)
        IN  (/\ r1 < r2 /\ r1 \in req[r2].conc
             /\ req[r1].kind = "add" /\ Done(r1) /\ req[r1].resp = 200
             /\ req[r2].kind = "add" /\ Done(r2) /\ req[r2].resp = 200
             /\ req[r1].user # Guest /\ req[r2].user = req[r1].user
             /\ req[r2].productId = p
             /\ req[r2].session = req[r1].session
             /\ \A o \in Reqs \ {r1, r2} :
                   req[o].pc = "idle" \/ (o < r1 /\ o \notin req[r1].conc)
             /\ before + req[r1].quantity + req[r2].quantity <= stock[p]) =>
                QtyIn(cart_items, req[r1].session, p)
                    = before + req[r1].quantity + req[r2].quantity

====
